---- MODULE Spec2Model ----
(***************************************************************************)
(* A model of two pieces of the druid repository:                          *)
(*   - druid/src/text/rich_text.rs : RichText, RichTextBuilder and         *)
(*     AttributesAdder (styled text with copy-on-write attribute spans);   *)
(*   - druidinho/src/window.rs : Window, the dispatcher of platform        *)
(*     callbacks into the root widget.                                     *)
(* AttributeSpans (druid/src/text/attribute.rs) and WidgetHost             *)
(* (druidinho/src/widget_host.rs) are modelled from the specification.     *)
(***************************************************************************)
EXTENDS Integers, Sequences, FiniteSets, TLC

\* ------------------------------------------------------------------ bounds
MaxLen == 2
MaxCalls == 2

VARIABLES
    \* rich text
    builder,      \* RichTextBuilder { buffer, attrs, links }
    built,        \* the builder has been consumed by build()
    adder,        \* the live AttributesAdder { range }, or NoAdder
    rt,           \* the RichText values: handle -> NoRT or { buffer, attrs, links }
    arcs,         \* the Arc<AttributeSpans> allocations: cell -> { strong, val }
    fault,        \* a panic has been raised
    \* history of the calls made (read by the properties only)
    appended,     \* what was appended to the builder: [bytes, nPush, nWrite]
    adderSrc,     \* how the live adder was requested
    linkSrc,      \* how each link call was requested, in call order
    nCalls,       \* number of attribute adds and link calls made so far
    last,         \* the last operation: [op, h, lo, hi, attr]
    want,         \* per target, kind and byte: the value of the last add covering it
    snap,         \* per RichText: what it held after the last operation on itself
    \* window
    handle,       \* WindowHandle: [invalid]
    root_state,   \* Window.root_state: WidgetState
    window_size,  \* Window.window_size: Size
    root,         \* Window.root: WidgetHost { laid_out, state: { size, origin } }
    cb,           \* the last platform callback: [name, ev]
    sizeArg,      \* the size passed to the most recent size_changed
    trace,        \* the calls made by the last callback, in order
    ret           \* what the last callback returned

tvars == <<builder, built, adder, rt, arcs, appended, adderSrc, linkSrc, nCalls, last,
           want, snap>>
wvars == <<handle, root_state, window_size, root, cb, sizeArg, trace, ret>>
vars == <<builder, built, adder, rt, arcs, fault, appended, adderSrc, linkSrc,
          nCalls, last, want, snap, handle, root_state, window_size, root, cb, sizeArg, trace, ret>>

\* ------------------------------------------------------------ general helpers
Min(a, b) == IF a <= b THEN a ELSE b

\* --------------------------------------------------------------- text inputs
\* UTF-8 strings as sequences of bytes; "c3","a9" is the two-byte encoding of one char.
Strs == { <<>>, <<"h">>, <<"c3", "a9">> }
FmtTexts == { <<"1">> }

Kinds == {"size", "text_color", "font_family", "weight", "style", "underline",
          "font_descriptor"}

KindOrder == <<"font_descriptor", "font_family", "size", "weight", "text_color",
               "style", "underline">>

\* Attribute::underline(bool), Attribute::weight(FontWeight), ...
Attribute(kind, v) == [kind |-> kind, val |-> v]

AttrInputs == { Attribute("underline", "true"), Attribute("underline", "false"),
                Attribute("weight", "BOLD") }

Commands == {"cmd1", "cmd2"}

\* impl RangeBounds<usize>: a start bound and an end bound.
Unbounded == <<"U", 0>>
Included(n) == <<"I", n>>
Excluded(n) == <<"E", n>>
RangeInputs ==
    { r \in { [s |-> Included(a), e |-> Excluded(b)] :
                 a \in 0..MaxLen, b \in 0..(MaxLen + 1) } :
        r.s[2] < r.e[2] }                                                  \* a..b, a < b
    \cup { [s |-> Included(0), e |-> Excluded(0)] }                        \* 0..0
    \cup { [s |-> Included(1), e |-> Excluded(0)] }                        \* 1..0
    \cup { [s |-> Unbounded, e |-> Unbounded] }                            \* ..
    \cup { [s |-> Excluded(0), e |-> Unbounded] }                          \* (Excluded(0), Unbounded)
    \cup { [s |-> Unbounded, e |-> Included(0)] }                          \* ..=0

\* The ranges asked of the builder: the whole buffer, a prefix, one past the end.
BuilderRangeInputs ==
    { [s |-> Unbounded, e |-> Unbounded],
      [s |-> Included(0), e |-> Excluded(1)],
      [s |-> Included(1), e |-> Excluded(MaxLen + 1)] }

Range(a, b) == [start |-> a, end |-> b]

\* ------------------------------------------------------------ resolve_range
\* The start and end the bounds name, before any clamping.
ResolveRangeNoClamp(range, len) ==
    LET start == CASE range.s[1] = "U" -> 0
                   [] range.s[1] = "I" -> range.s[2]
                   [] range.s[1] = "E" -> range.s[2] + 1
        end   == CASE range.e[1] = "U" -> len
                   [] range.e[1] = "I" -> range.e[2] + 1
                   [] range.e[1] = "E" -> range.e[2]
    IN Range(start, end)

\* piet::util::resolve_range: the bounds become a start and an end, each clamped
\* to len.
ResolveRange(range, len) ==
    LET start == CASE range.s[1] = "U" -> 0
                   [] range.s[1] = "I" -> range.s[2]
                   [] range.s[1] = "E" -> range.s[2] + 1
        end   == CASE range.e[1] = "U" -> len
                   [] range.e[1] = "I" -> range.e[2] + 1
                   [] range.e[1] = "E" -> range.e[2]
    IN Range(Min(start, len), Min(end, len))

\* ------------------------------------------------------------ AttributeSpans
\* One set of non-overlapping spans per attribute kind.
EmptySpans == [k \in Kinds |-> {}]

Span(a, b, attr) == [start |-> a, end |-> b, attr |-> attr]

\* The parts of span s that lie outside [a, b).
Clip(s, a, b) ==
    { p \in { Span(s.start, Min(s.end, a), s.attr),
              Span(IF s.start > b THEN s.start ELSE b, s.end, s.attr) } :
        p.start < p.end }

SpanSetAdd(S, range, attr) ==
    IF range.start >= range.end
    THEN S
    ELSE (UNION { Clip(s, range.start, range.end) : s \in S })
         \cup { Span(range.start, range.end, attr) }

\* AttributeSpans::add
SpansAdd(A, range, attr) == [A EXCEPT ![attr.kind] = SpanSetAdd(@, range, attr)]

\* The attribute of kind k emitted on byte p, or "none".
EmitAt(A, k, p) ==
    IF \E s \in A[k] : s.start <= p /\ p < s.end
    THEN (CHOOSE s \in A[k] : s.start <= p /\ p < s.end).attr.val
    ELSE "none"

KindIndex(k) == CHOOSE i \in 1..Len(KindOrder) : KindOrder[i] = k

RECURSIVE SortSpans(_)
SortSpans(S) ==
    IF S = {} THEN <<>>
    ELSE LET m == CHOOSE x \in S : \A y \in S :
                    \/ x.start < y.start
                    \/ /\ x.start = y.start
                       /\ KindIndex(x.attr.kind) <= KindIndex(y.attr.kind)
         IN <<[range |-> Range(m.start, m.end), attr |-> m.attr]>> \o SortSpans(S \ {m})

\* AttributeSpans::to_piet_attrs: the flat list of (range, attribute), by start.
ToPietAttrs(A) == SortSpans(UNION { A[k] : k \in Kinds })

\* ------------------------------------------------------------------ Arc
Handles == {"r1", "r2"}
Cells == {"a1", "a2"}
NoRT == [none |-> TRUE]
NoAdder == [none |-> TRUE]
FreeArc == [strong |-> 0, val |-> EmptySpans]

FreeCell(heap) == IF heap["a1"].strong = 0 THEN "a1" ELSE "a2"

\* Arc::new
ArcNew(heap, v) ==
    LET c == FreeCell(heap)
    IN [heap |-> [heap EXCEPT ![c] = [strong |-> 1, val |-> v]], cell |-> c]

\* A faulty Arc::make_mut: no uniqueness test, the shared allocation is handed out.
ArcMakeMutInPlace(heap, c) == [heap |-> heap, cell |-> c]

\* Arc::make_mut: the allocation itself when unique, else a fresh copy of it.
ArcMakeMut(heap, c) ==
    IF heap[c].strong = 1
    THEN [heap |-> heap, cell |-> c]
    ELSE LET n == FreeCell(heap)
         IN [heap |-> [heap EXCEPT ![c].strong = @ - 1,
                                   ![n] = [strong |-> 1, val |-> heap[c].val]],
             cell |-> n]

\* Dropping one Arc.
ArcDrop(heap, c) ==
    IF heap[c].strong = 1 THEN [heap EXCEPT ![c] = FreeArc]
    ELSE [heap EXCEPT ![c].strong = @ - 1]

\* ------------------------------------------------------------- RichText
Live(h) == rt[h] # NoRT

\* RichText::len, PietTextStorage::as_str, TextStorage::links, TextStorage::add_attributes
RtLen(r) == Len(r.buffer)
AsStr(r) == r.buffer
Links(r) == r.links
Attrs(h) == arcs[rt[h].attrs].val
AddAttributes(h) == ToPietAttrs(Attrs(h))

\* Whether the bounds name a byte index past len.
OutOfBounds(range, len) ==
    LET r == ResolveRangeNoClamp(range, len) IN r.start > len \/ r.end > len

TextIdle == UNCHANGED <<fault, wvars>>

\* RichText::new_with_attributes
NewWithAttributesCore(heap, buffer, attributes) ==
    LET a == ArcNew(heap, attributes)
    IN [r |-> [buffer |-> buffer, attrs |-> a.cell, links |-> <<>>], heap |-> a.heap]

\* RichText::new
NewCore(heap, buffer) == NewWithAttributesCore(heap, buffer, EmptySpans)

\* A faulty add_attribute: the range is not resolved against the buffer.
AddAttributeUnresolved(r, heap, range, attr) ==
    LET rng == ResolveRangeNoClamp(range, Len(r.buffer))
        m == ArcMakeMut(heap, r.attrs)
    IN [r |-> [r EXCEPT !.attrs = m.cell],
        heap |-> [m.heap EXCEPT ![m.cell].val = SpansAdd(@, rng, attr)]]

\* RichText::add_attribute
AddAttributeCore(r, heap, range, attr) ==
    LET rng == ResolveRange(range, Len(r.buffer))
        m == ArcMakeMut(heap, r.attrs)
    IN [r |-> [r EXCEPT !.attrs = m.cell],
        heap |-> [m.heap EXCEPT ![m.cell].val = SpansAdd(@, rng, attr)]]

\* RichText::with_attribute: add_attribute on the moved value, which is returned.
WithAttributeCore(r, heap, range, attr) == AddAttributeCore(r, heap, range, attr)

\* ------------------------------------------------------- RichTextBuilder
EmptyBuilder == [buffer |-> <<>>, attrs |-> EmptySpans, links |-> <<>>]
NoSrc == [via |-> "none", lo |-> 0, hi |-> 0, len |-> 0]

\* Range<usize> a..b as RangeBounds
HalfOpen(a, b) == [s |-> Included(a), e |-> Excluded(b)]

\* A faulty add_attributes_for_range: the range is taken as given.
AddAttributesForRangeUnresolved(b, range) ==
    [range |-> ResolveRangeNoClamp(range, Len(b.buffer))]

\* RichTextBuilder::add_attributes_for_range: the adder for the resolved range.
AddAttributesForRangeCore(b, range) ==
    [range |-> ResolveRange(range, Len(b.buffer))]

\* A faulty push: the range is computed after the string was appended.
PushCoreLate(b, string) ==
    LET b1 == [b EXCEPT !.buffer = @ \o string]
        range == HalfOpen(Len(b1.buffer), Len(b1.buffer) + Len(string))
    IN [builder |-> b1, adder |-> AddAttributesForRangeCore(b1, range)]

\* A faulty push: the string replaces the buffer.
PushCoreReplace(b, string) ==
    LET range == HalfOpen(Len(b.buffer), Len(b.buffer) + Len(string))
        b1 == [b EXCEPT !.buffer = string]
    IN [builder |-> b1, adder |-> AddAttributesForRangeCore(b1, range)]

\* RichTextBuilder::push
PushCore(b, string) ==
    LET range == HalfOpen(Len(b.buffer), Len(b.buffer) + Len(string))
        b1 == [b EXCEPT !.buffer = @ \o string]
    IN [builder |-> b1, adder |-> AddAttributesForRangeCore(b1, range)]

\* RichTextBuilder::write_fmt, the formatting having written text without error
WriteFmtCore(b, text) ==
    LET start == Len(b.buffer)
        b1 == [b EXCEPT !.buffer = @ \o text]
    IN [builder |-> b1, adder |-> AddAttributesForRangeCore(b1, HalfOpen(start, Len(b1.buffer)))]

\* A faulty add_attr: the attribute is recorded over the whole buffer.
AddAttrCoreWhole(b, a, attr) ==
    [b EXCEPT !.attrs = SpansAdd(@, Range(0, Len(b.buffer)), attr)]

\* AttributesAdder::add_attr
AddAttrCore(b, a, attr) == [b EXCEPT !.attrs = SpansAdd(@, a.range, attr)]

\* impl Into<Command>
IntoCommand(c) == [command |-> c]

\* Link::new
LinkNew(range, command) == [range |-> range, command |-> command]

\* AttributesAdder::link
LinkCore(b, a, command) ==
    [b EXCEPT !.links = Append(@, LinkNew(a.range, IntoCommand(command)))]

\* RichTextBuilder::build
BuildCore(b, heap) ==
    LET a == ArcNew(heap, b.attrs)
    IN [r |-> [buffer |-> b.buffer, attrs |-> a.cell, links |-> b.links], heap |-> a.heap]

\* ------------------------------------------------------------ text actions
NoneLive == \A h \in Handles : ~Live(h)
NoAppends == [bytes |-> <<>>, nPush |-> 0, nWrite |-> 0]
BuilderFresh == ~built /\ builder = EmptyBuilder /\ adder = NoAdder /\ appended = NoAppends

NoAttr == [kind |-> "none", val |-> "none"]
Op(name) ==
    [op |-> name, h |-> "none", lo |-> 0, hi |-> 0, attr |-> NoAttr, over |-> FALSE]

\* The history of adds, byte by byte: an add over [lo, hi) of a buffer of len bytes
\* sets its kind on the bytes it covers and leaves every other byte and kind alone.
Bytes == 0..(MaxLen - 1)
WantNone == [k \in Kinds |-> [p \in Bytes |-> "none"]]
WantAdd(w, lo, hi, len, attr) ==
    [w EXCEPT ![attr.kind] =
        [p \in Bytes |-> IF lo <= p /\ p < hi /\ p < len THEN attr.val ELSE @[p]]]
WantOf(A) == [k \in Kinds |-> [p \in Bytes |-> EmitAt(A, k, p)]]

\* Whether an add over [lo, hi) overrides an earlier add of its kind on some byte
\* and leaves that earlier add standing on another.
Overrides(w, lo, hi, len, attr) ==
    \E p \in Bytes, q \in Bytes :
        /\ p < len /\ q < len
        /\ lo <= p /\ p < hi /\ ~(lo <= q /\ q < hi)
        /\ w[attr.kind][p] \notin {"none", attr.val}
        /\ w[attr.kind][q] = w[attr.kind][p]

AddOp(name, h, raw, attr, over) ==
    [op |-> name, h |-> h, lo |-> raw.start, hi |-> raw.end, attr |-> attr,
     over |-> over]

\* An add_attribute: the range asked is kept when it is out of bounds.
RichAddOp(h, range, len, attr, over) ==
    IF OutOfBounds(range, len)
    THEN AddOp("add_attribute_oob", h, ResolveRangeNoClamp(range, len), attr, over)
    ELSE AddOp("add_attribute", h, Range(0, 0), attr, over)

NoSnap == [buffer |-> <<>>, attrs |-> <<>>, links |-> <<>>]
SnapOf(r, heap) == [buffer |-> r.buffer, attrs |-> ToPietAttrs(heap[r.attrs].val),
                    links |-> r.links]

SpansInputs == { EmptySpans,
                 SpansAdd(EmptySpans, Range(0, 1), Attribute("underline", "true")) }

New(buffer) ==
    /\ ~fault /\ NoneLive /\ BuilderFresh
    /\ LET n == NewCore(arcs, buffer)
       IN /\ rt' = [rt EXCEPT !["r1"] = n.r]
          /\ arcs' = n.heap
          /\ snap' = [snap EXCEPT !["r1"] = SnapOf(n.r, n.heap)]
    /\ want' = [want EXCEPT !["r1"] = WantNone]
    /\ last' = Op("new")
    /\ UNCHANGED <<builder, built, adder, appended, adderSrc, linkSrc, nCalls>>
    /\ TextIdle

NewWithAttributes(buffer, attributes) ==
    /\ ~fault /\ NoneLive /\ BuilderFresh
    /\ LET n == NewWithAttributesCore(arcs, buffer, attributes)
       IN /\ rt' = [rt EXCEPT !["r1"] = n.r]
          /\ arcs' = n.heap
          /\ snap' = [snap EXCEPT !["r1"] = SnapOf(n.r, n.heap)]
    /\ want' = [want EXCEPT !["r1"] = WantOf(attributes)]
    /\ last' = Op("new_with_attributes")
    /\ UNCHANGED <<builder, built, adder, appended, adderSrc, linkSrc, nCalls>>
    /\ TextIdle

\* #[derive(Clone)]: every field is an Arc, cloned by raising its count.
Clone(src, dst) ==
    /\ ~fault /\ Live(src) /\ ~Live(dst)
    /\ rt' = [rt EXCEPT ![dst] = rt[src]]
    /\ arcs' = [arcs EXCEPT ![rt[src].attrs].strong = @ + 1]
    /\ snap' = [snap EXCEPT ![dst] = SnapOf(rt[src], arcs)]
    /\ want' = [want EXCEPT ![dst] = want[src]]
    /\ last' = Op("clone")
    /\ UNCHANGED <<builder, built, adder, appended, adderSrc, linkSrc, nCalls>>
    /\ TextIdle

\* A RichText going out of scope.
Drop(h) ==
    /\ ~fault /\ Live(h)
    /\ rt' = [rt EXCEPT ![h] = NoRT]
    /\ arcs' = ArcDrop(arcs, rt[h].attrs)
    /\ snap' = [snap EXCEPT ![h] = NoSnap]
    /\ want' = [want EXCEPT ![h] = WantNone]
    /\ last' = Op("drop")
    /\ UNCHANGED <<builder, built, adder, appended, adderSrc, linkSrc, nCalls>>
    /\ TextIdle

AddAttribute(h, range, attr) ==
    /\ ~fault /\ Live(h) /\ nCalls < MaxCalls
    /\ LET n == AddAttributeCore(rt[h], arcs, range, attr)
       IN /\ rt' = [rt EXCEPT ![h] = n.r]
          /\ arcs' = n.heap
          /\ snap' = [snap EXCEPT ![h] = SnapOf(n.r, n.heap)]
    /\ nCalls' = nCalls + 1
    /\ LET raw == ResolveRangeNoClamp(range, Len(rt[h].buffer))
       IN /\ last' = RichAddOp(h, range, Len(rt[h].buffer), attr,
                            Overrides(want[h], raw.start, raw.end, Len(rt[h].buffer), attr))
          /\ want' = [want EXCEPT ![h] =
                         WantAdd(@, raw.start, raw.end, Len(rt[h].buffer), attr)]
    /\ UNCHANGED <<builder, built, adder, appended, adderSrc, linkSrc>>
    /\ TextIdle

WithAttribute(h, range, attr) ==
    /\ ~fault /\ Live(h) /\ nCalls < MaxCalls
    /\ LET n == WithAttributeCore(rt[h], arcs, range, attr)
       IN /\ rt' = [rt EXCEPT ![h] = n.r]
          /\ arcs' = n.heap
          /\ snap' = [snap EXCEPT ![h] = SnapOf(n.r, n.heap)]
    /\ nCalls' = nCalls + 1
    /\ LET raw == ResolveRangeNoClamp(range, Len(rt[h].buffer))
       IN /\ last' = RichAddOp(h, range, Len(rt[h].buffer), attr,
                            Overrides(want[h], raw.start, raw.end, Len(rt[h].buffer), attr))
          /\ want' = [want EXCEPT ![h] =
                         WantAdd(@, raw.start, raw.end, Len(rt[h].buffer), attr)]
    /\ UNCHANGED <<builder, built, adder, appended, adderSrc, linkSrc>>
    /\ TextIdle

BuilderUsable == ~fault /\ ~built /\ NoneLive

Push(string) ==
    /\ BuilderUsable
    /\ appended.nPush + appended.nWrite < MaxLen
    /\ Len(builder.buffer) + Len(string) <= MaxLen
    /\ LET n == PushCore(builder, string)
       IN builder' = n.builder /\ adder' = n.adder
    /\ appended' = [appended EXCEPT !.bytes = @ \o string, !.nPush = @ + 1]
    /\ adderSrc' = [via |-> "push", lo |-> Len(builder.buffer),
                    hi |-> Len(builder.buffer) + Len(string),
                    len |-> Len(builder.buffer) + Len(string)]
    /\ last' = Op("builder")
    /\ UNCHANGED <<built, rt, arcs, linkSrc, nCalls, want, snap>>
    /\ TextIdle

\* write_fmt: the formatting writes text and returns Ok, or writes a part of it
\* and returns Err, on which expect panics.
WriteFmt(text, ok) ==
    /\ BuilderUsable
    /\ appended.nPush + appended.nWrite < MaxLen
    /\ Len(builder.buffer) + Len(text) <= MaxLen
    /\ LET n == WriteFmtCore(builder, text)
       IN /\ builder' = n.builder
          /\ adder' = IF ok THEN n.adder ELSE NoAdder
    /\ appended' = [appended EXCEPT !.bytes = @ \o text, !.nWrite = @ + 1]
    /\ adderSrc' = IF ok THEN [via |-> "write_fmt", lo |-> Len(builder.buffer),
                               hi |-> Len(builder.buffer) + Len(text),
                               len |-> Len(builder.buffer) + Len(text)]
                   ELSE NoSrc
    /\ fault' = ~ok
    /\ last' = Op("builder")
    /\ UNCHANGED <<built, rt, arcs, linkSrc, nCalls, want, snap>>
    /\ UNCHANGED wvars

AddAttributesForRange(range) ==
    /\ BuilderUsable
    /\ adder' = AddAttributesForRangeCore(builder, range)
    /\ LET raw == ResolveRangeNoClamp(range, Len(builder.buffer))
       IN adderSrc' = [via |-> "range", lo |-> raw.start, hi |-> raw.end,
                       len |-> Len(builder.buffer)]
    /\ last' = Op("builder")
    /\ UNCHANGED <<builder, built, rt, arcs, appended, linkSrc, nCalls, want, snap>>
    /\ TextIdle

\* What the history keeps of an attribute added through the live adder.
AdderAdded(attr) ==
    /\ nCalls' = nCalls + 1
    /\ last' = AddOp("add_attr", "builder", Range(adderSrc.lo, adderSrc.hi), attr,
                      Overrides(want["builder"], adderSrc.lo, adderSrc.hi, adderSrc.len, attr))
    /\ want' = [want EXCEPT !["builder"] =
                   WantAdd(@, adderSrc.lo, adderSrc.hi, adderSrc.len, attr)]
    /\ UNCHANGED <<built, adder, rt, arcs, appended, adderSrc, linkSrc, snap>>
    /\ TextIdle

AddAttr(attr) ==
    /\ BuilderUsable /\ adder # NoAdder /\ nCalls < MaxCalls
    /\ builder' = AddAttrCore(builder, adder, attr)
    /\ AdderAdded(attr)

\* AttributesAdder::weight; size, text_color, font_family, style and
\* font_descriptor have the same body with their own Attribute constructor.
Weight(weight) ==
    /\ BuilderUsable /\ adder # NoAdder /\ nCalls < MaxCalls
    /\ builder' = AddAttrCore(builder, adder, Attribute("weight", weight))
    /\ AdderAdded(Attribute("weight", weight))

\* AttributesAdder::underline
Underline(underline) ==
    /\ BuilderUsable /\ adder # NoAdder /\ nCalls < MaxCalls
    /\ builder' = AddAttrCore(builder, adder, Attribute("underline", underline))
    /\ AdderAdded(Attribute("underline", underline))

Link(command) ==
    /\ BuilderUsable /\ adder # NoAdder /\ nCalls < MaxCalls
    /\ builder' = LinkCore(builder, adder, command)
    /\ linkSrc' = Append(linkSrc, [src |-> adderSrc, command |-> command])
    /\ nCalls' = nCalls + 1
    /\ last' = Op("builder")
    /\ UNCHANGED <<built, adder, rt, arcs, appended, adderSrc, want, snap>>
    /\ TextIdle

Build ==
    /\ BuilderUsable
    /\ LET n == BuildCore(builder, arcs)
       IN /\ rt' = [rt EXCEPT !["r1"] = n.r]
          /\ arcs' = n.heap
          /\ snap' = [snap EXCEPT !["r1"] = SnapOf(n.r, n.heap)]
    /\ want' = [want EXCEPT !["r1"] = want["builder"]]
    /\ built' = TRUE
    /\ adder' = NoAdder
    /\ adderSrc' = NoSrc
    /\ last' = Op("build")
    /\ UNCHANGED <<builder, appended, linkSrc, nCalls>>
    /\ TextIdle

\* --------------------------------------------------------------- window
ZeroSize == [w |-> 0, h |-> 0]
ZeroPoint == [x |-> 0, y |-> 0]
Sizes == { ZeroSize, [w |-> 800, h |-> 600], [w |-> 400, h |-> 300] }
DefaultWidgetState == [size |-> ZeroSize, origin |-> ZeroPoint]
\* What a widget may leave in the state its context lends it.
WidgetStates == { DefaultWidgetState, [size |-> [w |-> 800, h |-> 600], origin |-> ZeroPoint] }

\* The platform's events: druid_shell::MouseEvent, KeyEvent, TimerToken, IdleToken.
NoEv == <<"none", "none">>
MouseEvents == { <<"shell::MouseEvent", "m1">>, <<"shell::MouseEvent", "m2">> }
KeyEvents == { <<"KeyEvent", "k1">> }
TimerTokens == { <<"TimerToken", "t1">> }
IdleTokens == { <<"IdleToken", "i1">> }
Outcomes == {"ok", "panic"}
Results == {"true", "false"}

\* event.to_owned().into(): the platform's mouse event becomes the toolkit's.
IntoMouseEvent(event) == <<"MouseEvent", event[2]>>

\* BoxConstraints::tight
Tight(size) == [min |-> size, max |-> size]
NoBc == Tight(ZeroSize)

\* The three context shapes.
EventCtx == [kind |-> "event", window |-> "&handle", state |-> "&mut root_state",
             render_ctx |-> "none"]
LayoutCtx == [kind |-> "layout", window |-> "&handle", state |-> "&root_state",
              render_ctx |-> "none"]
PaintCtx == [kind |-> "paint", window |-> "none", state |-> "&root_state",
             render_ctx |-> "piet"]
NoCtx == [kind |-> "none", window |-> "none", state |-> "none", render_ctx |-> "none"]

\* One call: on the root WidgetHost, on the widget it holds, or on the handle.
Call(to, m, ctx, ev, bc, pt, sz, res) ==
    [to |-> to, m |-> m, ctx |-> ctx, ev |-> ev, bc |-> bc, pt |-> pt, sz |-> sz,
     res |-> res]

\* ----------------------------------------------------------- WidgetHost
\* WidgetHost::new
HostNew == [laid_out |-> FALSE, state |-> DefaultWidgetState]

\* An input entry point of the host (init, mouse_down, ..., timer): the widget's
\* method of the same name is invoked; o is what the widget does, res what it returns.
HostEvent(host, m, ctx, ev, o, res) ==
    [host |-> host,
     calls |-> << Call("root", m, ctx, ev, NoBc, ZeroPoint, ZeroSize, "unit"),
                  Call("widget", m, ctx, ev, NoBc, ZeroPoint, ZeroSize, res) >>,
     panic |-> (o = "panic")]

\* WidgetHost::layout: the widget is laid out and the size it returns is recorded.
HostLayout(host, ctx, bc, sz, o) ==
    [host |-> IF o = "ok" THEN [laid_out |-> TRUE, state |-> [host.state EXCEPT !.size = sz]]
              ELSE host,
     calls |-> << Call("root", "layout", ctx, NoEv, bc, ZeroPoint, ZeroSize, "unit"),
                  Call("widget", "layout", ctx, NoEv, bc, ZeroPoint, sz, "unit") >>,
     panic |-> (o = "panic")]

\* A faulty WidgetHost::paint: the widget is painted whether or not it was laid out.
HostPaintUnchecked(host, ctx, o) ==
    [host |-> host,
     calls |-> << Call("root", "paint", ctx, NoEv, NoBc, ZeroPoint, ZeroSize, "unit"),
                  Call("widget", "paint", ctx, NoEv, NoBc, ZeroPoint, ZeroSize, "unit") >>,
     panic |-> (o = "panic")]

\* WidgetHost::paint: painting a host that was never laid out is a fault; the widget
\* is not painted.
HostPaint(host, ctx, o) ==
    IF ~host.laid_out
    THEN [host |-> host,
          calls |-> << Call("root", "paint", ctx, NoEv, NoBc, ZeroPoint, ZeroSize, "unit") >>,
          panic |-> TRUE]
    ELSE [host |-> host,
          calls |-> << Call("root", "paint", ctx, NoEv, NoBc, ZeroPoint, ZeroSize, "unit"),
                       Call("widget", "paint", ctx, NoEv, NoBc, ZeroPoint, ZeroSize,
                            "unit") >>,
          panic |-> (o = "panic")]

\* WidgetHost::set_origin
HostSetOrigin(host, point) ==
    [host |-> [host EXCEPT !.state.origin = point],
     calls |-> << Call("root", "set_origin", NoCtx, NoEv, NoBc, point, ZeroSize, "unit") >>,
     panic |-> FALSE]

\* --------------------------------------------------------------- Window
\* Window::with_event_ctx: f is run on the root with an EventCtx { window: &handle,
\* state: &mut root_state }; here f invokes method m with ev.
WithEventCtx(m, ev, o, res) == HostEvent(root, m, EventCtx, ev, o, res)

Cb(name, ev) == [name |-> name, ev |-> ev, prepared |-> (cb.prepared \/ cb.name = "prepare_paint")]

\* What every input callback does with the outcome of with_event_ctx.
Dispatched(name, ev, d, st, r) ==
    /\ root' = d.host
    /\ root_state' = st
    /\ trace' = d.calls
    /\ fault' = d.panic
    /\ ret' = IF d.panic THEN "none" ELSE r
    /\ cb' = Cb(name, ev)
    /\ UNCHANGED <<handle, window_size, sizeArg>>
    /\ UNCHANGED tvars

window_connected(st, o) ==
    /\ ~fault
    /\ Dispatched("window_connected", NoEv, WithEventCtx("init", NoEv, o, "unit"), st, "unit")

\* A faulty prepare_paint: loose constraints.
prepare_paint_loose(sz, o) ==
    /\ ~fault
    /\ LET bc == [min |-> ZeroSize, max |-> window_size]
           l == HostLayout(root, LayoutCtx, bc, sz, o)
           s == HostSetOrigin(l.host, ZeroPoint)
       IN /\ root' = IF l.panic THEN l.host ELSE s.host
          /\ trace' = IF l.panic THEN l.calls ELSE l.calls \o s.calls
          /\ fault' = l.panic
          /\ ret' = IF l.panic THEN "none" ELSE "unit"
    /\ cb' = Cb("prepare_paint", NoEv)
    /\ UNCHANGED <<handle, root_state, window_size, sizeArg>>
    /\ UNCHANGED tvars

prepare_paint(sz, o) ==
    /\ ~fault
    /\ LET bc == Tight(window_size)
           l == HostLayout(root, LayoutCtx, bc, sz, o)
           s == HostSetOrigin(l.host, ZeroPoint)
       IN /\ root' = IF l.panic THEN l.host ELSE s.host
          /\ trace' = IF l.panic THEN l.calls ELSE l.calls \o s.calls
          /\ fault' = l.panic
          /\ ret' = IF l.panic THEN "none" ELSE "unit"
    /\ cb' = Cb("prepare_paint", NoEv)
    /\ UNCHANGED <<handle, root_state, window_size, sizeArg>>
    /\ UNCHANGED tvars

paint(o) ==
    /\ ~fault
    /\ LET p == HostPaint(root, PaintCtx, o)
       IN /\ root' = p.host
          /\ trace' = p.calls
          /\ fault' = p.panic
          /\ ret' = IF p.panic THEN "none" ELSE "unit"
    /\ cb' = Cb("paint", NoEv)
    /\ UNCHANGED <<handle, root_state, window_size, sizeArg>>
    /\ UNCHANGED tvars

size_changed(new_size) ==
    /\ ~fault
    /\ window_size' = new_size
    /\ handle' = [handle EXCEPT !.invalid = TRUE]
    /\ sizeArg' = new_size
    /\ trace' = << Call("handle", "invalidate", NoCtx, NoEv, NoBc, ZeroPoint, ZeroSize, "unit") >>
    /\ ret' = "unit"
    /\ cb' = Cb("size_changed", NoEv)
    /\ UNCHANGED <<root_state, root, fault>>
    /\ UNCHANGED tvars

mouse_down(event, st, o) ==
    /\ ~fault
    /\ LET ev == IntoMouseEvent(event)
       IN Dispatched("mouse_down", event, WithEventCtx("mouse_down", ev, o, "unit"), st, "unit")

\* A faulty mouse_up: the event goes to the widget's mouse_down.
mouse_up_as_down(event, st, o) ==
    /\ ~fault
    /\ LET ev == IntoMouseEvent(event)
       IN Dispatched("mouse_up", event, WithEventCtx("mouse_down", ev, o, "unit"), st, "unit")

mouse_up(event, st, o) ==
    /\ ~fault
    /\ LET ev == IntoMouseEvent(event)
       IN Dispatched("mouse_up", event, WithEventCtx("mouse_up", ev, o, "unit"), st, "unit")

mouse_move(event, st, o) ==
    /\ ~fault
    /\ LET ev == IntoMouseEvent(event)
       IN Dispatched("mouse_move", event, WithEventCtx("mouse_move", ev, o, "unit"), st, "unit")

scroll(event, st, o) ==
    /\ ~fault
    /\ LET ev == IntoMouseEvent(event)
       IN Dispatched("scroll", event, WithEventCtx("scroll", ev, o, "unit"), st, "unit")

\* A faulty key_down: what the widget returns is handed on.
key_down_threaded(event, st, o, res) ==
    /\ ~fault
    /\ Dispatched("key_down", event, WithEventCtx("key_down", event, o, res), st, res)

\* key_down: what the widget returns is dropped, false is returned.
key_down(event, st, o, res) ==
    /\ ~fault
    /\ Dispatched("key_down", event, WithEventCtx("key_down", event, o, res), st, "false")

key_up(event, st, o) ==
    /\ ~fault
    /\ Dispatched("key_up", event, WithEventCtx("key_up", event, o, "unit"), st, "unit")

timer(token, st, o) ==
    /\ ~fault
    /\ Dispatched("timer", token, WithEventCtx("timer", token, o, "unit"), st, "unit")

idle(token) ==
    /\ ~fault
    /\ trace' = <<>>
    /\ ret' = "unit"
    /\ cb' = Cb("idle", token)
    /\ UNCHANGED <<handle, root_state, window_size, root, sizeArg, fault>>
    /\ UNCHANGED tvars

\* Window::new
InitWindowVars ==
    /\ handle = [invalid |-> FALSE]
    /\ root_state = DefaultWidgetState
    /\ window_size = ZeroSize
    /\ root = HostNew
    /\ cb = [name |-> "new", ev |-> NoEv, prepared |-> FALSE]
    /\ sizeArg = ZeroSize
    /\ trace = <<>>
    /\ ret = "unit"

InitTextVars ==
    /\ builder = EmptyBuilder
    /\ built = FALSE
    /\ adder = NoAdder
    /\ rt = [h \in Handles |-> NoRT]
    /\ arcs = [c \in Cells |-> FreeArc]
    /\ appended = NoAppends
    /\ adderSrc = NoSrc
    /\ linkSrc = <<>>
    /\ nCalls = 0
    /\ last = Op("init")
    /\ want = [x \in Handles \cup {"builder"} |-> WantNone]
    /\ snap = [h \in Handles |-> NoSnap]

InitText == InitTextVars /\ InitWindowVars /\ fault = FALSE

NextRich ==
    \/ \E b \in Strs : New(b)
    \/ \E b \in Strs, a \in SpansInputs : NewWithAttributes(b, a)
    \/ \E s \in Handles, d \in Handles : Clone(s, d)
    \/ \E h \in Handles : Drop(h)
    \/ \E h \in Handles, r \in RangeInputs, a \in AttrInputs : AddAttribute(h, r, a)
    \/ \E h \in Handles, r \in RangeInputs, a \in AttrInputs : WithAttribute(h, r, a)

NextBuilder ==
    \/ \E s \in Strs : Push(s)
    \/ \E s \in FmtTexts, ok \in BOOLEAN : WriteFmt(s, ok)
    \/ \E r \in BuilderRangeInputs : AddAttributesForRange(r)
    \/ \E a \in AttrInputs : AddAttr(a)
    \/ Weight("BOLD")
    \/ \E u \in {"true", "false"} : Underline(u)
    \/ \E c \in Commands : Link(c)
    \/ Build

\* The operations that add attributes, on the builder and on the built text.
NextAttrs ==
    \/ \E s \in Strs : Push(s)
    \/ \E r \in BuilderRangeInputs : AddAttributesForRange(r)
    \/ \E a \in AttrInputs : AddAttr(a)
    \/ Weight("BOLD")
    \/ \E u \in {"true", "false"} : Underline(u)
    \/ \E b \in Strs : New(b)
    \/ \E b \in Strs, a \in SpansInputs : NewWithAttributes(b, a)
    \/ \E s \in Handles, d \in Handles : Clone(s, d)
    \/ \E h \in Handles, r \in RangeInputs, a \in AttrInputs : AddAttribute(h, r, a)
    \/ \E h \in Handles, r \in RangeInputs, a \in AttrInputs : WithAttribute(h, r, a)

SpecAttrs == InitText /\ [][NextAttrs]_vars

InitWindow == InitTextVars /\ InitWindowVars /\ fault = FALSE

NextWindow ==
    \/ \E st \in WidgetStates, o \in Outcomes : window_connected(st, o)
    \/ \E sz \in Sizes, o \in Outcomes : prepare_paint(sz, o)
    \/ \E o \in Outcomes : paint(o)
    \/ \E s \in Sizes : size_changed(s)
    \/ \E e \in MouseEvents, st \in WidgetStates, o \in Outcomes : mouse_down(e, st, o)
    \/ \E e \in MouseEvents, st \in WidgetStates, o \in Outcomes : mouse_up(e, st, o)
    \/ \E e \in MouseEvents, st \in WidgetStates, o \in Outcomes : mouse_move(e, st, o)
    \/ \E e \in MouseEvents, st \in WidgetStates, o \in Outcomes : scroll(e, st, o)
    \/ \E e \in KeyEvents, st \in WidgetStates, o \in Outcomes, r \in Results :
           key_down(e, st, o, r)
    \/ \E e \in KeyEvents, st \in WidgetStates, o \in Outcomes : key_up(e, st, o)
    \/ \E k \in TimerTokens, st \in WidgetStates, o \in Outcomes : timer(k, st, o)
    \/ \E k \in IdleTokens : idle(k)

SpecWindow == InitWindow /\ [][NextWindow]_vars
SpecRich == InitText /\ [][NextRich]_vars
SpecBuilder == InitText /\ [][NextBuilder]_vars
\* ------------------------------------------------------------ properties
AttrsOf(rtv, heap, h) == heap[rtv[h].attrs].val

\* C1: copy-on-write isolation. Every RichText still emits the attributes, and holds
\* the buffer and the links, it had after the last operation on itself: adds made
\* to a clone, or to the value it was cloned from, do not reach it.
C1_CowIsolation ==
    \A h \in Handles : Live(h) => SnapOf(rt[h], arcs) = snap[h]

\* r2, a clone of r1, has just been given an attribute r1 does not emit.
C1_Witness ==
    /\ Live("r1") /\ Live("r2")
    /\ last.op \in {"add_attribute", "add_attribute_oob"} /\ last.h = "r2"
    /\ rt["r1"].buffer = rt["r2"].buffer
    /\ AddAttributes("r1") # AddAttributes("r2")

\* C2: builder round trip and length. With only pushes made, the builder's buffer is
\* at every moment the concatenation of the strings pushed, whatever adder calls
\* were made in between; the built RichText holds that buffer, and its len() is
\* as_str().len() and the number of bytes pushed.
C2_BuilderRoundTrip ==
    appended.nWrite = 0 =>
        /\ ~built => builder.buffer = appended.bytes
        /\ \A h \in Handles : (built /\ Live(h)) =>
               /\ AsStr(rt[h]) = appended.bytes
               /\ RtLen(rt[h]) = Len(AsStr(rt[h]))
               /\ RtLen(rt[h]) = Len(appended.bytes)

\* Two pushes, an adder call, then build.
C2_Witness ==
    /\ built /\ Live("r1")
    /\ appended.nWrite = 0 /\ appended.nPush >= 2
    /\ Len(appended.bytes) >= 2
    /\ nCalls >= 1

\* C3: push range and link range. The adder push returns has the range
\* [old_len, old_len + s.len()); an attribute added through it is recorded over that
\* range; the links are one per link call, in call order, each with the range of its
\* adder and its command, and the built RichText returns them.
C3_PushRange ==
    /\ (adder # NoAdder /\ adderSrc.via = "push") =>
           adder.range = Range(adderSrc.lo, adderSrc.hi)
    /\ (last.op = "add_attr" /\ adderSrc.via = "push" /\ last.lo < last.hi) =>
           Span(last.lo, last.hi, last.attr) \in builder.attrs[last.attr.kind]
    /\ Len(builder.links) = Len(linkSrc)
    /\ \A i \in 1..Len(linkSrc) :
           /\ builder.links[i].command = IntoCommand(linkSrc[i].command)
           /\ linkSrc[i].src.via = "push" =>
                  builder.links[i].range = Range(linkSrc[i].src.lo, linkSrc[i].src.hi)
    /\ (built /\ Live("r1")) => Links(rt["r1"]) = builder.links

\* A string pushed after another, styled and linked through its adder, then built.
C3_Witness ==
    /\ built /\ Live("r1")
    /\ Len(linkSrc) >= 1
    /\ linkSrc[1].src.via = "push"
    /\ linkSrc[1].src.lo > 0 /\ linkSrc[1].src.hi > linkSrc[1].src.lo
    /\ \E k \in Kinds : \E s \in Attrs("r1")[k] :
           s.start = linkSrc[1].src.lo /\ s.end = linkSrc[1].src.hi

\* C4: last writer wins per kind. On every byte of the buffer, the attribute emitted
\* for a kind is the one of the last add of that kind covering the byte (none when
\* no add covers it): on an overlap the later add wins, the bytes only the earlier
\* add covers keep it, and adds of another kind change nothing.
C4_LastWriterWins ==
    /\ \A k \in Kinds, p \in Bytes :
           p < Len(builder.buffer) => EmitAt(builder.attrs, k, p) = want["builder"][k][p]
    /\ \A h \in Handles : Live(h) =>
           \A k \in Kinds, p \in Bytes :
               p < RtLen(rt[h]) => EmitAt(Attrs(h), k, p) = want[h][k][p]

\* An add_attribute has overridden an earlier add of its kind on a part of it.
C4_Witness ==
    /\ last.op \in {"add_attribute", "add_attribute_oob"} /\ last.over
    /\ nCalls >= 2

C10_LinksWithinBuffer ==
    /\ \A i \in 1..Len(builder.links) :
           /\ builder.links[i].range.start <= Len(builder.buffer)
           /\ builder.links[i].range.end <= Len(builder.buffer)
    /\ \A h \in Handles : Live(h) =>
           \A i \in 1..Len(Links(rt[h])) :
               /\ Links(rt[h])[i].range.start <= RtLen(rt[h])
               /\ Links(rt[h])[i].range.end <= RtLen(rt[h])

\* A link made through an adder asked for a range past the buffer, then built.
C10_Witness ==
    /\ built /\ Live("r1")
    /\ \E i \in 1..Len(linkSrc) :
           /\ linkSrc[i].src.via = "range"
           /\ linkSrc[i].src.hi > linkSrc[i].src.len

RootCalls == SelectSeq(trace, LAMBDA c : c.to = "root")
WidgetCalls == SelectSeq(trace, LAMBDA c : c.to = "widget")

\* C6: paint after layout. A paint on a window that never received prepare_paint
\* ends in a fault and the widget's paint is not invoked; the widget's paint is
\* invoked only on a root that was laid out.
C6_PaintAfterLayout ==
    /\ (cb.name = "paint" /\ ~cb.prepared) =>
           /\ fault
           /\ \A i \in 1..Len(trace) : ~(trace[i].to = "widget" /\ trace[i].m = "paint")
    /\ \A i \in 1..Len(trace) :
           (trace[i].to = "widget" /\ trace[i].m = "paint") => (cb.prepared /\ root.laid_out)

\* paint was delivered to a connected, resized window before any prepare_paint.
C6_Witness == cb.name = "paint" /\ ~cb.prepared /\ handle.invalid /\ fault

\* C7: prepare_paint lays the root out exactly once, in a layout context, with tight
\* constraints equal to the size of the most recent size_changed (zero when there
\* was none), and sets the origin to (0,0) after the layout returned, not
\* otherwise; a root that returned the size asked then has that size.
C7_PreparePaint ==
    cb.name = "prepare_paint" =>
        /\ Len(RootCalls) >= 1
        /\ RootCalls[1] = Call("root", "layout", LayoutCtx, NoEv,
                               [min |-> sizeArg, max |-> sizeArg], ZeroPoint, ZeroSize, "unit")
        /\ \A i \in 2..Len(RootCalls) : RootCalls[i].m # "layout"
        /\ fault => Len(RootCalls) = 1
        /\ ~fault =>
               /\ Len(RootCalls) = 2
               /\ RootCalls[2].m = "set_origin" /\ RootCalls[2].pt = ZeroPoint
               /\ root.state.origin = ZeroPoint
               /\ WidgetCalls[1].sz = sizeArg =>
                      (root.state.size = sizeArg /\ window_size = sizeArg)

\* The window was resized to 800x600 and prepare_paint laid out an accepting root.
C7_Witness ==
    /\ cb.name = "prepare_paint" /\ ~fault
    /\ sizeArg = [w |-> 800, h |-> 600]
    /\ root.state.size = [w |-> 800, h |-> 600]

EventCallbacks == {"window_connected", "mouse_down", "mouse_up", "mouse_move", "scroll",
                   "key_down", "key_up", "timer"}
MouseCallbacks == {"mouse_down", "mouse_up", "mouse_move", "scroll"}
MethodFor(name) == IF name = "window_connected" THEN "init" ELSE name
ArgFor(name, ev) == IF name \in MouseCallbacks THEN <<"MouseEvent", ev[2]>> ELSE ev

\* What the last callback made the root do: one call of the matching method for an
\* input callback, nothing for idle.
C8_Dispatch ==
    /\ cb.name \in EventCallbacks =>
           /\ RootCalls = << Call("root", MethodFor(cb.name), EventCtx,
                                  ArgFor(cb.name, cb.ev), NoBc, ZeroPoint, ZeroSize, "unit") >>
           /\ \A i \in 1..Len(trace) : trace[i].m \notin {"layout", "paint", "set_origin"}
    /\ cb.name = "idle" => trace = <<>>

\* C8: input dispatch is one to one. Each input callback invokes exactly one method
\* of the root, the one matching the callback (init for window_connected), once, in
\* an event context of the handle and the root state, with no layout and no paint;
\* idle invokes nothing and leaves handle, root_state, window_size and root unchanged.
C8_DispatchOneToOne ==
    /\ []C8_Dispatch
    /\ [][cb'.name = "idle" => UNCHANGED <<handle, root_state, window_size, root>>]_vars

\* mouse_up was dispatched to a window that had been laid out.
C8_Witness == cb.name = "mouse_up" /\ ~fault /\ root.laid_out /\ Len(trace) = 2

\* C9: key_down reports not consumed. key_down hands the event to the root's
\* key_down and, whatever the widget returned, returns false.
C9_KeyDownNotConsumed ==
    cb.name = "key_down" =>
        /\ Len(RootCalls) = 1
        /\ RootCalls[1].m = "key_down" /\ RootCalls[1].ev = cb.ev
        /\ ~fault => ret = "false"

\* The widget reported the key consumed and key_down returned false.
C9_Witness ==
    /\ cb.name = "key_down" /\ ~fault
    /\ WidgetCalls[1].res = "true" /\ ret = "false"
====
